---- MODULE Spec2Model ----
(***************************************************************************)
(* Model of the WebSocket tester's session controller and message log     *)
(* (function App of websocket_tester_frontend/src/App.js).                 *)
(*                                                                         *)
(* Strings are sequences of tokens.  A token is one character ("a", "{",   *)
(* " ", "\n") or, for the fixed fragments of the program's messages, one   *)
(* literal chunk ("Connecting to ").  Concatenation is \o, the empty       *)
(* string is <<>>.                                                         *)
(***************************************************************************)
EXTENDS Integers, Sequences, FiniteSets, TLC

(***************************************************************************)
(* Bounds of the model.                                                    *)
(***************************************************************************)
\* A handler that appends to the log runs only while the log holds fewer than
\* MaxLog entries (clearLog always runs and brings it back to one entry).
MaxLog == 2
\* Spec constructs at most MaxSockets transports.
MaxSockets == 2

(***************************************************************************)
(* String helpers (String.prototype.trim / startsWith).                    *)
(***************************************************************************)
\* White space of the modelled alphabet: space and line feed.
WhiteSpace == {" ", "\n"}

Digits == {"0", "1"}

Last(s) == s[Len(s)]

RECURSIVE TrimStart(_)
TrimStart(s) ==
  IF s # <<>> /\ Head(s) \in WhiteSpace THEN TrimStart(Tail(s)) ELSE s

RECURSIVE TrimEnd(_)
TrimEnd(s) ==
  IF s # <<>> /\ Last(s) \in WhiteSpace
    THEN TrimEnd(SubSeq(s, 1, Len(s) - 1))
    ELSE s

Trim(s) == TrimEnd(TrimStart(s))

StartsWith(s, p) == Len(s) >= Len(p) /\ SubSeq(s, 1, Len(p)) = p

IsPrefix(s, t) == Len(s) <= Len(t) /\ SubSeq(t, 1, Len(s)) = s

(***************************************************************************)
(* JSON.parse, JSON.stringify(v) and JSON.stringify(v, null, 2) over the   *)
(* alphabet of the model: the structural characters, the double quote,     *)
(* white space, the digits 0 and 1 and letters that spell none of true,    *)
(* false, null.  A parsed value is a record [k, s, items]:                 *)
(*   k = "num":  s is the digits;   k = "str":  s is the characters;       *)
(*   k = "arr":  items is the sequence of element values;                  *)
(*   k = "obj":  items is the sequence of <<key, value>> in property order.*)
(***************************************************************************)
NumV(d) == [k |-> "num", s |-> d, items |-> <<>>]
StrV(c) == [k |-> "str", s |-> c, items |-> <<>>]
ArrV(xs) == [k |-> "arr", s |-> <<>>, items |-> xs]
ObjV(ps) == [k |-> "obj", s |-> <<>>, items |-> ps]

Fail == [ok |-> FALSE, v |-> NumV(<<>>), rest |-> <<>>]
Ok(val, r) == [ok |-> TRUE, v |-> val, rest |-> r]

\* The characters of a string literal up to its closing quote; a raw line
\* feed (a control character) or the end of input is a syntax error.
RECURSIVE ParseString(_, _)
ParseString(s, acc) ==
  IF s = <<>> THEN Fail
  ELSE IF Head(s) = "\"" THEN Ok(StrV(acc), Tail(s))
  ELSE IF Head(s) = "\n" THEN Fail
  ELSE ParseString(Tail(s), Append(acc, Head(s)))

RECURSIVE TakeDigits(_, _)
TakeDigits(s, acc) ==
  IF s # <<>> /\ Head(s) \in Digits
    THEN TakeDigits(Tail(s), Append(acc, Head(s)))
    ELSE Ok(NumV(acc), s)

\* int = "0" | digit1-9 digits: after a leading 0 the number ends.
ParseNumber(s) ==
  IF Head(s) = "0" THEN Ok(NumV(<<"0">>), Tail(s)) ELSE TakeDigits(s, <<>>)

\* Value of a digit string as a binary-free decimal number.
RECURSIVE NumVal(_)
NumVal(d) ==
  IF d = <<>> THEN 0
  ELSE 10 * NumVal(SubSeq(d, 1, Len(d) - 1)) + (IF Last(d) = "1" THEN 1 ELSE 0)

\* A property key that is a canonical array index ("0", "1", "10", ...).
IsIndexKey(key) ==
  /\ key # <<>>
  /\ \A i \in 1..Len(key) : key[i] \in Digits
  /\ (Head(key) = "0" => Len(key) = 1)

\* Position at which a new property is created: index keys in ascending
\* numeric order before all other keys, other keys in creation order.
RECURSIVE InsertAt(_, _, _)
InsertAt(props, key, i) ==
  IF i > Len(props) THEN i
  ELSE IF ~IsIndexKey(key) THEN Len(props) + 1
  ELSE IF ~IsIndexKey(props[i][1]) \/ NumVal(props[i][1]) > NumVal(key) THEN i
  ELSE InsertAt(props, key, i + 1)

\* obj[key] = val: an existing property keeps its place and gets the value.
DefineProp(props, key, val) ==
  IF \E i \in 1..Len(props) : props[i][1] = key
    THEN [i \in 1..Len(props) |->
            IF props[i][1] = key THEN <<key, val>> ELSE props[i]]
    ELSE LET p == InsertAt(props, key, 1)
         IN SubSeq(props, 1, p - 1) \o <<<<key, val>>>> \o SubSeq(props, p, Len(props))

RECURSIVE ParseValue(_)
RECURSIVE ParseElements(_, _)
RECURSIVE ParseMembers(_, _)

ParseValue(s) ==
  LET t == TrimStart(s) IN
  IF t = <<>> THEN Fail
  ELSE IF Head(t) = "{" THEN
    (LET u == TrimStart(Tail(t)) IN
     IF u # <<>> /\ Head(u) = "}" THEN Ok(ObjV(<<>>), Tail(u))
     ELSE ParseMembers(u, <<>>))
  ELSE IF Head(t) = "[" THEN
    (LET u == TrimStart(Tail(t)) IN
     IF u # <<>> /\ Head(u) = "]" THEN Ok(ArrV(<<>>), Tail(u))
     ELSE ParseElements(u, <<>>))
  ELSE IF Head(t) = "\"" THEN ParseString(Tail(t), <<>>)
  ELSE IF Head(t) \in Digits THEN ParseNumber(t)
  ELSE Fail

ParseElements(s, acc) ==
  LET r == ParseValue(s) IN
  IF ~r.ok THEN Fail
  ELSE LET t == TrimStart(r.rest) IN
       IF t = <<>> THEN Fail
       ELSE IF Head(t) = "," THEN ParseElements(Tail(t), Append(acc, r.v))
       ELSE IF Head(t) = "]" THEN Ok(ArrV(Append(acc, r.v)), Tail(t))
       ELSE Fail

ParseMembers(s, acc) ==
  LET t == TrimStart(s) IN
  IF t = <<>> \/ Head(t) # "\"" THEN Fail
  ELSE LET key == ParseString(Tail(t), <<>>) IN
       IF ~key.ok THEN Fail
       ELSE LET u == TrimStart(key.rest) IN
            IF u = <<>> \/ Head(u) # ":" THEN Fail
            ELSE LET r == ParseValue(Tail(u)) IN
                 IF ~r.ok THEN Fail
                 ELSE LET w == TrimStart(r.rest)
                          ps == DefineProp(acc, key.v.s, r.v)
                      IN IF w = <<>> THEN Fail
                         ELSE IF Head(w) = "," THEN ParseMembers(Tail(w), ps)
                         ELSE IF Head(w) = "}" THEN Ok(ObjV(ps), Tail(w))
                         ELSE Fail

\* JSON.parse(text): .ok is FALSE where it throws a SyntaxError.
JSONParse(s) ==
  LET r == ParseValue(s) IN
  IF r.ok /\ TrimStart(r.rest) = <<>> THEN r ELSE Fail

Quote(c) == <<"\"">> \o c \o <<"\"">>

RECURSIVE Spaces(_)
Spaces(n) == IF n = 0 THEN <<>> ELSE <<" ">> \o Spaces(n - 1)

\* JSON.stringify(v, null, gap) at indentation ind; gap = 0 is the compact
\* form JSON.stringify(v).
RECURSIVE Serialize(_, _, _)
RECURSIVE JoinItems(_, _, _, _, _)

Serialize(v, gap, ind) ==
  IF v.k = "num" THEN v.s
  ELSE IF v.k = "str" THEN Quote(v.s)
  ELSE LET open == IF v.k = "arr" THEN <<"[">> ELSE <<"{">>
           close == IF v.k = "arr" THEN <<"]">> ELSE <<"}">>
       IN IF v.items = <<>> THEN open \o close
          ELSE IF gap = 0
            THEN open \o JoinItems(v.k, v.items, gap, ind, 1) \o close
            ELSE open \o <<"\n">> \o Spaces(ind + gap)
                   \o JoinItems(v.k, v.items, gap, ind + gap, 1)
                   \o <<"\n">> \o Spaces(ind) \o close

JoinItems(k, items, gap, ind, i) ==
  LET one == IF k = "arr"
               THEN Serialize(items[i], gap, ind)
               ELSE Quote(items[i][1]) \o <<":">>
                      \o (IF gap = 0 THEN <<>> ELSE <<" ">>)
                      \o Serialize(items[i][2], gap, ind)
      sep == IF gap = 0 THEN <<",">> ELSE <<",", "\n">> \o Spaces(ind)
  IN IF i = Len(items) THEN one
     ELSE one \o sep \o JoinItems(k, items, gap, ind, i + 1)

\* JSON.stringify(v)
Stringify(v) == Serialize(v, 0, 0)

\* JSON.stringify(v, null, 2)
StringifyPretty(v) == Serialize(v, 2, 0)

(***************************************************************************)
(* Inputs: what the user types and toggles, and what the transport         *)
(* delivers.                                                               *)
(***************************************************************************)
Host == <<"h">>
WsScheme == <<"w", "s", ":", "/", "/">>
WssScheme == <<"w", "s", "s", ":", "/", "/">>

\* Values of the URL field: empty, blank, a bare host, a full ws:// URL, and
\* a full wss:// URL with white space around it.
UrlInputs ==
  { <<>>, <<" ">>, Host, WsScheme \o Host, <<" ">> \o WssScheme \o Host \o <<" ">> }

MsgObject == <<"{", "\"", "a", "\"", ":", "1", "}">>
MsgObjectSpaced == <<"{", " ", "\"", "a", "\"", ":", "1", "}">>
MsgInvalid == <<"{", "i", "n", "v", "a", "l", "i", "d">>
MsgNotJson == <<"n", "o", "t", " ", "j", "s", "o", "n">>

\* Values of the message box: blank, { "a":1} (an object written with white
\* space) and {invalid.
MessageInputs == { <<" ", "\n">>, MsgObjectSpaced, MsgInvalid }

\* evt.data of a message event (text frames).
DataInputs == { MsgNotJson, MsgObject }

\* evt.message of an error event: absent on a plain Event, or some text.
ErrorEvents == { <<>>, <<"boom">> }

\* evt.code and evt.reason of a close event.
CloseEvents ==
  { [code |-> 1000, reason |-> <<>>],
    [code |-> 1006, reason |-> <<"bye">>] }

\* `${evt.code}`
CodeStr(c) == IF c = 1000 THEN <<"1000">> ELSE <<"1006">>

(***************************************************************************)
(* State.                                                                  *)
(***************************************************************************)
VARIABLES status,   \* useState('disconnected'): "disconnected" | "connecting" | "connected"
          error,    \* useState(''): the error banner
          log,      \* useState([]): sequence of entries [type, text]
          wsRef,    \* useRef(null): 0 for null, else the index of a transport
          mounted,  \* the component is mounted (until the effect cleanup runs)
          sockets,  \* every WebSocket constructed so far: [readyState, url]
          op,       \* history: the handler that ran last and its inputs
          calls     \* history: the transport operations that handler invoked

vars == <<status, error, log, wsRef, mounted, sockets, op, calls>>

\* Types for log entries
SENT == "sent"
RECEIVED == "received"
SYSTEM == "system"

\* Close code passed to WebSocket.close
NormalClosure == 1000

\* Variant of addLog that puts the new entry in front.
addLog_Prepend(prev, type, text) == <<[type |-> type, text |-> text]>> \o prev

\* Variant of addLog that appends the entry twice.
addLog_Twice(prev, type, text) ==
  Append(Append(prev, [type |-> type, text |-> text]), [type |-> type, text |-> text])

\* addLog: the entry is appended to the end of the previous log.  The fresh
\* id and the time of an entry are never read back and are left out.
addLog(prev, type, text) == Append(prev, [type |-> type, text |-> text])

protocolHint(isSecure) == IF isSecure THEN WssScheme ELSE WsScheme

\* Variant of normalizeUrl without the early return on an empty input.
normalizeUrl_NoEmptyCheck(u, isSecure) ==
  LET trimmed == Trim(u) IN
  IF StartsWith(trimmed, WsScheme) \/ StartsWith(trimmed, WssScheme)
    THEN trimmed
    ELSE protocolHint(isSecure) \o trimmed

\* Variant of normalizeUrl that prefixes the protocol whatever the input.
normalizeUrl_AlwaysPrefix(u, isSecure) ==
  IF u = <<>> THEN <<>> ELSE protocolHint(isSecure) \o Trim(u)

normalizeUrl(u, isSecure) ==
  IF u = <<>> THEN <<>>
  ELSE LET trimmed == Trim(u) IN
       IF StartsWith(trimmed, WsScheme) \/ StartsWith(trimmed, WssScheme)
         THEN trimmed
         ELSE protocolHint(isSecure) \o trimmed

\* new WebSocket(target) throws a SyntaxError on a URL that does not parse:
\* here, one with no host or with white space in it.
UrlParses(target) ==
  LET rest == IF StartsWith(target, WssScheme)
                THEN SubSeq(target, Len(WssScheme) + 1, Len(target))
                ELSE SubSeq(target, Len(WsScheme) + 1, Len(target))
  IN rest # <<>> /\ \A i \in 1..Len(rest) : rest[i] \notin WhiteSpace

Op(name, arg, flag, ws, code) ==
  [name |-> name, arg |-> arg, flag |-> flag, ws |-> ws, code |-> code]

Call(ws, method, data, code, threw) ==
  [ws |-> ws, method |-> method, data |-> data, code |-> code, threw |-> threw]

\* e.message of the exceptions the handlers catch
SyntaxErrorMessage == <<"SyntaxError">>
InvalidStateMessage == <<"InvalidStateError">>

LogHasRoom == Len(log) < MaxLog

Init ==
  /\ status = "disconnected"
  /\ error = <<>>
  /\ log = <<>>
  /\ wsRef = 0
  /\ mounted = TRUE
  /\ sockets = <<>>
  /\ op = Op("init", <<>>, FALSE, 0, 0)
  /\ calls = <<>>

(***************************************************************************)
(* connect                                                                 *)
(***************************************************************************)
\* Variant of connectFailedStatus without setStatus in the catch block: the
\* status set before the constructor call stays.
connectFailedStatus_NoReset(st) == "connecting"

\* The status connect leaves when new WebSocket throws, given the status
\* before the call: the catch block resets it.
connectFailedStatus(st) == "disconnected"

connect(u, isSecure) ==
  LET target == normalizeUrl(u, isSecure) IN
  /\ mounted /\ UNCHANGED mounted
  /\ op' = Op("connect", u, isSecure, 0, 0)
  /\ IF target = <<>>
       THEN /\ error' = <<"Please enter a valid WebSocket URL.">>
            /\ log' = addLog(log, SYSTEM, <<"No URL provided.">>)
            /\ calls' = <<>>
            /\ UNCHANGED <<status, wsRef, sockets>>
       ELSE LET log1 == addLog(log, SYSTEM,
                               <<"Connecting to ">> \o target \o <<" ...">>)
            IN IF UrlParses(target)
                 THEN /\ status' = "connecting"
                      /\ error' = <<>>
                      /\ log' = log1
                      /\ sockets' = Append(sockets,
                                           [readyState |-> "CONNECTING", url |-> target])
                      /\ wsRef' = Len(sockets) + 1
                      /\ calls' = <<Call(Len(sockets) + 1, "new", target, 0, FALSE)>>
                 ELSE /\ status' = connectFailedStatus(status)
                      /\ error' = <<"Failed to connect: ">> \o SyntaxErrorMessage
                      /\ log' = addLog(log1, SYSTEM,
                                       <<"Failed to connect: ">> \o SyntaxErrorMessage)
                      /\ calls' = <<Call(0, "new", target, 0, TRUE)>>
                      /\ UNCHANGED <<wsRef, sockets>>
  /\ LogHasRoom

Connect ==
  \E u \in UrlInputs, isSecure \in BOOLEAN :
    /\ connect(u, isSecure)
    /\ Len(sockets') <= MaxSockets

(***************************************************************************)
(* Transport notifications of the transport sockets[i]                     *)
(***************************************************************************)
onopen(i) ==
  /\ mounted /\ UNCHANGED mounted
  /\ sockets[i].readyState = "CONNECTING"
  /\ sockets' = [sockets EXCEPT ![i].readyState = "OPEN"]
  /\ status' = "connected"
  /\ log' = addLog(log, SYSTEM, <<"Connected to ">> \o sockets[i].url)
  /\ LogHasRoom
  /\ op' = Op("onopen", <<>>, FALSE, i, 0)
  /\ calls' = <<>>
  /\ UNCHANGED <<error, wsRef>>

OnOpen == \E i \in 1..Len(sockets) : onopen(i)

\* Variant of prettyOrRaw that never pretty-prints.
prettyOrRaw_Raw(data) == data

\* The display rule of ws.onmessage: pretty-printed if it parses, else as is.
prettyOrRaw(data) ==
  LET maybe == JSONParse(data) IN
  IF maybe.ok THEN StringifyPretty(maybe.v) ELSE data

onmessage(i, data) ==
  /\ mounted /\ UNCHANGED mounted
  /\ sockets[i].readyState = "OPEN"
  /\ log' = addLog(log, RECEIVED, prettyOrRaw(data))
  /\ LogHasRoom
  /\ op' = Op("onmessage", data, FALSE, i, 0)
  /\ calls' = <<>>
  /\ UNCHANGED <<status, error, wsRef, sockets>>

OnMessage == \E i \in 1..Len(sockets), data \in DataInputs : onmessage(i, data)

\* Variant of onerror that also sets status to disconnected.
onerror_Disconnects(i, message) ==
  /\ mounted /\ UNCHANGED mounted
  /\ sockets[i].readyState # "CLOSED"
  /\ status' = "disconnected"
  /\ error' = <<"WebSocket error occurred. Check the console or server.">>
  /\ log' = addLog(log, SYSTEM,
                   <<"Error: ">> \o (IF message # <<>> THEN message
                                                       ELSE <<"An error occurred">>))
  /\ LogHasRoom
  /\ op' = Op("onerror", message, FALSE, i, 0)
  /\ calls' = <<>>
  /\ UNCHANGED <<wsRef, sockets>>

onerror(i, message) ==
  /\ mounted /\ UNCHANGED mounted
  /\ sockets[i].readyState # "CLOSED"
  /\ error' = <<"WebSocket error occurred. Check the console or server.">>
  /\ log' = addLog(log, SYSTEM,
                   <<"Error: ">> \o (IF message # <<>> THEN message
                                                       ELSE <<"An error occurred">>))
  /\ LogHasRoom
  /\ op' = Op("onerror", message, FALSE, i, 0)
  /\ calls' = <<>>
  /\ UNCHANGED <<status, wsRef, sockets>>

OnError == \E i \in 1..Len(sockets), message \in ErrorEvents : onerror(i, message)

onclose(i, evt) ==
  /\ mounted /\ UNCHANGED mounted
  /\ sockets[i].readyState # "CLOSED"
  /\ sockets' = [sockets EXCEPT ![i].readyState = "CLOSED"]
  /\ status' = "disconnected"
  /\ LET reason == IF evt.reason # <<>> THEN evt.reason ELSE <<"Connection closed">>
     IN log' = addLog(log, SYSTEM,
                      <<"Disconnected (">> \o CodeStr(evt.code) \o <<") - ">> \o reason)
  /\ LogHasRoom
  /\ op' = Op("onclose", evt.reason, FALSE, i, evt.code)
  /\ calls' = <<>>
  /\ UNCHANGED <<error, wsRef>>

OnClose == \E i \in 1..Len(sockets), evt \in CloseEvents : onclose(i, evt)

(***************************************************************************)
(* The transport's close and send, as the handlers see them.  The outcome  *)
(* is what the call does to the transport and whether it throws.           *)
(***************************************************************************)
\* ws.close(1000, reason): starts the closing handshake of a transport that
\* is connecting or open.  On a transport that is not open the call may also
\* fail loudly, which leaves the transport as it was.
CloseOutcomes(readyState) ==
  { [readyState |-> IF readyState \in {"CONNECTING", "OPEN"}
                      THEN "CLOSING" ELSE readyState,
     threw |-> FALSE] }
  \cup (IF readyState = "OPEN" THEN {}
        ELSE { [readyState |-> readyState, threw |-> TRUE] })

\* ws.send(payload): throws on a connecting transport, writes on an open
\* one, and drops the data or fails loudly on a closing or closed one.
SendThrows(readyState) ==
  IF readyState = "CONNECTING" THEN {TRUE}
  ELSE IF readyState = "OPEN" THEN {FALSE}
  ELSE BOOLEAN

(***************************************************************************)
(* disconnect                                                              *)
(***************************************************************************)
\* Variant of disconnectStatus with setStatus inside the try block, after close.
disconnectStatus_InTry(st, threw) == IF threw THEN st ELSE "disconnected"

\* The status disconnect leaves, given the status before and whether close
\* threw: setStatus('disconnected') sits in the finally block.
disconnectStatus(st, threw) == "disconnected"

disconnect ==
  /\ mounted /\ UNCHANGED mounted
  /\ IF wsRef = 0
       THEN /\ calls' = <<>>
            /\ status' = disconnectStatus(status, FALSE)
            /\ UNCHANGED sockets
       ELSE \E out \in CloseOutcomes(sockets[wsRef].readyState) :
              /\ sockets' = [sockets EXCEPT ![wsRef].readyState = out.readyState]
              /\ calls' = <<Call(wsRef, "close", <<"User disconnect">>,
                                 NormalClosure, out.threw)>>
              /\ status' = disconnectStatus(status, out.threw)
  /\ log' = addLog(log, SYSTEM, <<"Disconnected by user">>)
  /\ LogHasRoom
  /\ op' = Op("disconnect", <<>>, FALSE, wsRef, 0)
  /\ UNCHANGED <<error, wsRef>>

Disconnect == disconnect

(***************************************************************************)
(* sendMessage                                                             *)
(***************************************************************************)
\* Variant of notConnected that tests the transport reference only.
notConnected_RefOnly(st, ref) == ref = 0

\* status !== 'connected' || !wsRef.current
notConnected(st, ref) == st # "connected" \/ ref = 0

\* Variant of isBlank that tests for the empty string without trimming.
isBlank_EmptyOnly(message) == message = <<>>

\* !message.trim()
isBlank(message) == Trim(message) = <<>>

\* Variant of parseFails in which the parse failure is not noticed.
parseFails_Never(message, isJson) == FALSE

\* In JSON mode JSON.parse(message) throws.
parseFails(message, isJson) == isJson /\ ~JSONParse(message).ok

\* What is handed to ws.send: in JSON mode the re-serialized parse result.
payloadOf(message, isJson) ==
  IF isJson THEN Stringify(JSONParse(message).v) ELSE message

\* Variant of displayOf that logs the payload as it was written.
displayOf_Raw(payload, isJson) == payload

\* The text of the Sent entry: in JSON mode the payload pretty-printed (kept
\* raw should it not parse), in text mode the payload.
displayOf(payload, isJson) ==
  IF isJson /\ JSONParse(payload).ok
    THEN StringifyPretty(JSONParse(payload).v)
    ELSE payload

sendMessage(message, isJson) ==
  /\ mounted /\ UNCHANGED mounted
  /\ op' = Op("sendMessage", message, isJson, wsRef, 0)
  /\ IF notConnected(status, wsRef)
       THEN /\ error' = <<"Not connected to a WebSocket server.">>
            /\ log' = addLog(log, SYSTEM, <<"Cannot send: not connected">>)
            /\ calls' = <<>>
       ELSE IF isBlank(message)
       THEN /\ error' = <<>>
            /\ calls' = <<>>
            /\ UNCHANGED log
       ELSE IF parseFails(message, isJson)
       THEN /\ error' = <<"Invalid JSON: ">> \o SyntaxErrorMessage
            /\ log' = addLog(log, SYSTEM, <<"Invalid JSON: ">> \o SyntaxErrorMessage)
            /\ calls' = <<>>
       ELSE LET payload == payloadOf(message, isJson) IN
            \E threw \in SendThrows(sockets[wsRef].readyState) :
              /\ calls' = <<Call(wsRef, "send", payload, 0, threw)>>
              /\ IF threw
                   THEN /\ error' = <<"Send failed: ">> \o InvalidStateMessage
                        /\ log' = addLog(log, SYSTEM,
                                         <<"Send failed: ">> \o InvalidStateMessage)
                   ELSE /\ error' = <<>>
                        /\ log' = addLog(log, SENT, displayOf(payload, isJson))
  /\ (LogHasRoom \/ log' = log)
  /\ UNCHANGED <<status, wsRef, sockets>>

SendMessage ==
  \E message \in MessageInputs, isJson \in BOOLEAN : sendMessage(message, isJson)

(***************************************************************************)
(* clearLog: setLog([]) and then addLog, whose updater runs on the emptied *)
(* log.                                                                    *)
(***************************************************************************)
\* Variant of setLogEmpty that keeps the entries.
setLogEmpty_Keep(prev) == prev

\* setLog([])
setLogEmpty(prev) == <<>>

clearLog ==
  /\ mounted /\ UNCHANGED mounted
  /\ log' = addLog(setLogEmpty(log), SYSTEM, <<"Log cleared">>)
  /\ op' = Op("clearLog", <<>>, FALSE, 0, 0)
  /\ calls' = <<>>
  /\ UNCHANGED <<status, error, wsRef, sockets>>

ClearLog == clearLog

Next ==
  \/ Connect
  \/ Disconnect
  \/ SendMessage
  \/ ClearLog
  \/ OnOpen
  \/ OnMessage
  \/ OnError
  \/ OnClose

Spec == Init /\ [][Next]_vars

(***************************************************************************)
(* What the rendered controls offer, by status.                            *)
(***************************************************************************)
\* The Connect button is rendered (not connected) and enabled (not connecting).
ConnectOffered == status # "connected" /\ status # "connecting"

\* The Disconnect button is rendered in place of the Connect button.
DisconnectOffered == status = "connected"

\* The Send button is enabled for the message typed.
SendOffered(message) == status = "connected" /\ ~isBlank(message)

(***************************************************************************)
(* The program as a user can drive it: connect, disconnect and send are    *)
(* invoked only through their buttons, so only when the button is offered. *)
(* Transport notifications arrive whenever the platform delivers them.     *)
(***************************************************************************)
MaxSocketsUI == 3

ConnectUI ==
  /\ ConnectOffered
  /\ \E u \in UrlInputs, isSecure \in BOOLEAN :
       /\ connect(u, isSecure)
       /\ Len(sockets') <= MaxSocketsUI

DisconnectUI ==
  /\ DisconnectOffered
  /\ disconnect

SendMessageUI ==
  \E message \in MessageInputs, isJson \in BOOLEAN :
    /\ SendOffered(message)
    /\ sendMessage(message, isJson)

NextUI ==
  \/ ConnectUI
  \/ DisconnectUI
  \/ SendMessageUI
  \/ ClearLog
  \/ OnOpen
  \/ OnMessage
  \/ OnError
  \/ OnClose

SpecUI == Init /\ [][NextUI]_vars

(***************************************************************************)
(* Cleanup on unmount: close, in try/catch, of the transport wsRef holds.  *)
(* React discards state updates of an unmounted component, so no handler   *)
(* acts on the state after it.                                             *)
(***************************************************************************)
unmount ==
  /\ mounted
  /\ mounted' = FALSE
  /\ IF wsRef = 0
       THEN /\ calls' = <<>>
            /\ UNCHANGED sockets
       ELSE \E out \in CloseOutcomes(sockets[wsRef].readyState) :
              /\ sockets' = [sockets EXCEPT ![wsRef].readyState = out.readyState]
              /\ calls' = <<Call(wsRef, "close", <<"Component unmounted">>,
                                 NormalClosure, out.threw)>>
  /\ op' = Op("unmount", <<>>, FALSE, wsRef, 0)
  /\ UNCHANGED <<status, error, log, wsRef>>

Unmount == unmount

NextTeardown ==
  \/ Next
  \/ Unmount

\* The session up to and including the teardown of the component.
SpecTeardown == Init /\ [][NextTeardown]_vars

(***************************************************************************)
(* Properties                                                              *)
(***************************************************************************)
SystemEntry(text) == [type |-> SYSTEM, text |-> text]

\* JSON.stringify({a: 1}, null, 2), written out.
PrettyObject == <<"{", "\n", " ", " ", "\"", "a", "\"", ":", " ", "1", "\n", "}">>

Active(i) == sockets[i].readyState \in {"CONNECTING", "OPEN"}

\* C1: at no time are two transports created by the controller both in the
\* connecting or open state.
C1_AtMostOneActiveTransport ==
  Cardinality({i \in 1..Len(sockets) : Active(i)}) <= 1

\* C2: a send made while status is not Connected invokes no transport
\* operation, sets a non-empty error and appends exactly one System entry.
C2_SendWhileNotConnected ==
  [][(op'.name = "sendMessage" /\ status # "connected")
       => /\ calls' = <<>>
          /\ error' # <<>>
          /\ Len(log') = Len(log) + 1
          /\ SubSeq(log', 1, Len(log)) = log
          /\ Last(log').type = SYSTEM]_vars

\* A send was made while status was Connecting and was refused.
C2_Witness ==
  /\ op.name = "sendMessage"
  /\ status = "connecting"
  /\ op.ws # 0
  /\ calls = <<>>
  /\ error = <<"Not connected to a WebSocket server.">>
  /\ Last(log) = SystemEntry(<<"Cannot send: not connected">>)

\* C3: connect with the empty input opens no transport, leaves status as it
\* was (so never away from Disconnected), appends exactly one System entry
\* and leaves a non-empty error.
C3_ConnectEmpty ==
  [][(op'.name = "connect" /\ op'.arg = <<>>)
       => /\ calls' = <<>>
          /\ sockets' = sockets
          /\ wsRef' = wsRef
          /\ status' = status
          /\ Len(log') = Len(log) + 1
          /\ SubSeq(log', 1, Len(log)) = log
          /\ Last(log').type = SYSTEM
          /\ error' # <<>>]_vars

\* connect("") ran in status Disconnected.
C3_Witness ==
  /\ op.name = "connect"
  /\ op.arg = <<>>
  /\ status = "disconnected"
  /\ Last(log) = SystemEntry(<<"No URL provided.">>)
  /\ error = <<"Please enter a valid WebSocket URL.">>

HasScheme(u) == StartsWith(u, WsScheme) \/ StartsWith(u, WssScheme)

SchemeOf(flag) == IF flag THEN WssScheme ELSE WsScheme

\* The one transport operation of the step is new WebSocket(target).
OpenedOn(target) ==
  /\ Len(calls') = 1
  /\ calls'[1].method = "new"
  /\ calls'[1].data = target

\* C4 as stated: an input without ws:// or wss:// prefix is opened with the
\* protocol of the secure flag put in front of it, an input with the prefix
\* is opened as it is.  (The empty input, on which nothing is opened, is
\* left to C3.)
C4_Original ==
  [][(op'.name = "connect" /\ op'.arg # <<>>)
       => IF HasScheme(op'.arg)
            THEN OpenedOn(op'.arg)
            ELSE OpenedOn(SchemeOf(op'.flag) \o op'.arg)]_vars

\* C4 amended: for a non-empty input, surrounding white space is removed
\* first; the WebSocket constructor is then called with the trimmed input as
\* it is when that starts with ws:// or wss://, whatever the secure flag, and
\* with the protocol of the secure flag put in front of it otherwise.
C4_NormalizeTrimmed ==
  [][(op'.name = "connect" /\ op'.arg # <<>>)
       => LET t == Trim(op'.arg) IN
          IF HasScheme(t)
            THEN OpenedOn(t)
            ELSE OpenedOn(SchemeOf(op'.flag) \o t)]_vars

\* connect ran on " wss://h " with the secure flag off and opened wss://h.
C4_Witness ==
  /\ op.name = "connect"
  /\ op.arg = <<" ">> \o WssScheme \o Host \o <<" ">>
  /\ ~op.flag
  /\ calls = <<Call(wsRef, "new", WssScheme \o Host, 0, FALSE)>>
  /\ sockets[wsRef].url = WssScheme \o Host

\* C5: a send in JSON mode of a payload that parses, made in status
\* Connected, writes the compact re-serialization to the transport exactly
\* once and appends exactly one Sent entry with the pretty-printed payload.
C5_JsonSend ==
  [][(/\ op'.name = "sendMessage"
      /\ op'.flag
      /\ JSONParse(op'.arg).ok
      /\ status = "connected")
       => /\ Len(calls') = 1
          /\ calls'[1].method = "send"
          /\ ~calls'[1].threw
          /\ calls'[1].data = Stringify(JSONParse(op'.arg).v)
          /\ log' = Append(log, [type |-> SENT,
                                 text |-> StringifyPretty(JSONParse(op'.arg).v)])]_vars

\* C6 as stated: a send in JSON mode of a payload that does not parse writes
\* nothing, appends no Sent entry, leaves status and sets the error to the
\* parse failure.
C6_Original ==
  [][(op'.name = "sendMessage" /\ op'.flag /\ ~JSONParse(op'.arg).ok)
       => /\ calls' = <<>>
          /\ \A i \in 1..Len(log') : i > Len(log) => log'[i].type # SENT
          /\ status' = status
          /\ StartsWith(error', <<"Invalid JSON: ">>)]_vars

\* C6 amended: when status is Connected and the payload is not blank, a send
\* in JSON mode of a payload that does not parse writes nothing, appends no
\* Sent entry (it appends one System entry), leaves status and sets the
\* error to the parse failure.
C6_InvalidJsonAborts ==
  [][(/\ op'.name = "sendMessage"
      /\ op'.flag
      /\ ~JSONParse(op'.arg).ok
      /\ status = "connected"
      /\ Trim(op'.arg) # <<>>)
       => /\ calls' = <<>>
          /\ sockets' = sockets
          /\ status' = status
          /\ StartsWith(error', <<"Invalid JSON: ">>)
          /\ Len(log') = Len(log) + 1
          /\ SubSeq(log', 1, Len(log)) = log
          /\ Last(log').type = SYSTEM]_vars

\* {invalid was sent in JSON mode in status Connected and was refused.
C6_Witness ==
  /\ op.name = "sendMessage"
  /\ op.flag
  /\ op.arg = MsgInvalid
  /\ status = "connected"
  /\ calls = <<>>
  /\ error = <<"Invalid JSON: ">> \o SyntaxErrorMessage
  /\ Last(log) = SystemEntry(error)

\* C7: every message notification appends exactly one Received entry, with
\* the payload as it is when it does not parse as JSON (not json stays
\* not json) and pretty-printed when it does ({"a":1} becomes PrettyObject).
C7_ReceivedEntry ==
  [][op'.name = "onmessage"
       => LET data == op'.arg
              text == IF JSONParse(data).ok
                        THEN StringifyPretty(JSONParse(data).v)
                        ELSE data
          IN /\ log' = Append(log, [type |-> RECEIVED, text |-> text])
             /\ (data = MsgNotJson => text = MsgNotJson)
             /\ (data = MsgObject => text = PrettyObject)]_vars

\* not json arrived and was logged as it is.
C7_Witness ==
  /\ op.name = "onmessage"
  /\ op.arg = MsgNotJson
  /\ Last(log) = [type |-> RECEIVED, text |-> MsgNotJson]

\* C8: in the state clear leaves, whatever the log held before, the log is
\* exactly the one System entry that says it was cleared.
C8_ClearLeavesOneEntry ==
  op.name = "clearLog" => log = <<SystemEntry(<<"Log cleared">>)>>

\* clear ran in a connected session and left the one entry.
C8_Witness ==
  /\ op.name = "clearLog"
  /\ log = <<SystemEntry(<<"Log cleared">>)>>
  /\ sockets # <<>>
  /\ status = "connected"

\* C9: disconnect, in any state and also when close fails, leaves status
\* Disconnected and appends exactly one System entry; with no transport
\* ever opened it invokes no transport operation, otherwise it calls close
\* with code 1000 on the current transport and nothing else.
C9_Disconnect ==
  [][op'.name = "disconnect"
       => /\ status' = "disconnected"
          /\ log' = Append(log, SystemEntry(<<"Disconnected by user">>))
          /\ (sockets = <<>> => calls' = <<>> /\ sockets' = sockets)
          /\ (sockets # <<>>
                => /\ Len(calls') = 1
                   /\ calls'[1].method = "close"
                   /\ calls'[1].ws = wsRef
                   /\ calls'[1].code = 1000)]_vars

\* disconnect ran on an open transport: the transport is still closing and
\* status is already Disconnected.
C9_Witness ==
  /\ op.name = "disconnect"
  /\ wsRef # 0
  /\ sockets[wsRef].readyState = "CLOSING"
  /\ calls # <<>>
  /\ status = "disconnected"

\* C10: every operation and notification other than clear leaves the
\* previous log as an unchanged prefix of the new log.
C10_AppendOnly ==
  [][op'.name # "clearLog" => IsPrefix(log, log')]_vars

\* Two different entries were appended one after the other and are in the
\* log in that order.
C10_Witness ==
  /\ Len(log) >= 2
  /\ op.name = "onopen"
  /\ log[Len(log) - 1].text = <<"Connecting to ">> \o sockets[op.ws].url \o <<" ...">>
  /\ Last(log).text = <<"Connected to ">> \o sockets[op.ws].url

\* The handler's one transport operation was new WebSocket, and it threw.
ConstructorThrew ==
  /\ op.name = "connect"
  /\ Len(calls) = 1
  /\ calls[1].method = "new"
  /\ calls[1].threw

\* C11: when new WebSocket throws inside connect, connect returns with
\* status Disconnected, a non-empty error, no transport created, and a
\* System entry describing the failure at the end of the log.
C11_OpenFailureCaught ==
  ConstructorThrew
    => /\ status = "disconnected"
       /\ error # <<>>
       /\ StartsWith(error, <<"Failed to connect: ">>)
       /\ Last(log) = SystemEntry(error)
       /\ \A i \in 1..Len(sockets) : sockets[i].url # calls[1].data

\* connect ran on a blank input after a transport had opened: the
\* constructor threw on ws:// and status is Disconnected.
C11_Witness ==
  /\ ConstructorThrew
  /\ op.arg = <<" ">>
  /\ calls[1].data = WsScheme
  /\ status = "disconnected"
  /\ sockets # <<>>

\* The step is one of connect, disconnect, send, on-open, on-error, on-close
\* and changes status or runs into an error (an error is set, or a transport
\* operation throws).
StatusOrErrorStep ==
  /\ op'.name \in {"connect", "disconnect", "sendMessage", "onopen", "onerror", "onclose"}
  /\ \/ status' # status
     \/ op'.name \in {"connect", "sendMessage", "onerror"} /\ error' # <<>>
     \/ calls' # <<>> /\ calls'[1].threw

\* The step appends exactly n entries to the log.
Appends(n) == Len(log') = Len(log) + n /\ SubSeq(log', 1, Len(log)) = log

\* C12 as stated: every such step appends exactly one log entry.
C12_Original == [][StatusOrErrorStep => Appends(1)]_vars

\* C12 amended: every such step appends exactly one log entry, except a
\* connect whose new WebSocket throws, which appends exactly two: the
\* "Connecting to" entry and the "Failed to connect" entry.
C12_OneEntryPerEvent ==
  [][StatusOrErrorStep
       => IF op'.name = "connect" /\ calls' # <<>> /\ calls'[1].threw
            THEN /\ Appends(2)
                 /\ log'[Len(log) + 1] =
                      SystemEntry(<<"Connecting to ">> \o calls'[1].data \o <<" ...">>)
                 /\ log'[Len(log) + 2] = SystemEntry(error')
            ELSE Appends(1)]_vars

\* A connect whose constructor threw left its two entries behind an older
\* entry of the log.
C12_Witness ==
  /\ ConstructorThrew
  /\ Len(log) = 3
  /\ log[2] = SystemEntry(<<"Connecting to ">> \o calls[1].data \o <<" ...">>)
  /\ log[3] = SystemEntry(<<"Failed to connect: ">> \o SyntaxErrorMessage)

\* C13: after teardown the current transport, if any, was asked to close
\* with code 1000 (a failure of that call staying inside the cleanup), and
\* no transport the controller created is left open.
C13_TeardownClosesOpen ==
  ~mounted
    => /\ wsRef # 0
            => /\ Len(calls) = 1
               /\ calls[1].method = "close"
               /\ calls[1].code = 1000
       /\ \A i \in 1..Len(sockets) : sockets[i].readyState # "OPEN"

\* The step is a send of an empty or white-space-only payload.
BlankSendStep == op'.name = "sendMessage" /\ Trim(op'.arg) = <<>>

\* The step writes nothing to a transport, leaves no error and leaves the log.
SilentlyIgnored ==
  /\ calls' = <<>>
  /\ error' = <<>>
  /\ log' = log
  /\ UNCHANGED <<status, wsRef, sockets>>

\* C14 as stated: a send of a blank payload is silently ignored in every
\* status.
C14_Original == [][BlankSendStep => SilentlyIgnored]_vars

\* C14 amended: a send of a blank payload made while status is Connected is
\* silently ignored: no transport write, no error left, no log entry.  (In
\* the other statuses it is refused like any send, with an error and a
\* System entry.)
C14_BlankSendIgnored ==
  [][(BlankSendStep /\ status = "connected") => SilentlyIgnored]_vars

\* A blank payload was sent in status Connected right after an error
\* notification: the error is gone, nothing was written and the entry of the
\* error notification is still the last one.
C14_Witness ==
  /\ op.name = "sendMessage"
  /\ op.arg = <<" ", "\n">>
  /\ status = "connected"
  /\ calls = <<>>
  /\ error = <<>>
  /\ log # <<>>
  /\ StartsWith(Last(log).text, <<"Error: ">>)

\* The last handler was a send that wrote to the transport without failure.
SendSucceeded ==
  /\ op.name = "sendMessage"
  /\ Len(calls) = 1
  /\ calls[1].method = "send"
  /\ ~calls[1].threw

\* C15 as stated: in both modes the Sent entry of a successful send has the
\* text a Received entry gets for the payload written to the transport.
C15_Original ==
  SendSucceeded
    => Last(log) = [type |-> SENT, text |-> prettyOrRaw(calls[1].data)]

\* C15 amended: in JSON mode the Sent entry of a successful send has the
\* text a Received entry gets for the payload written; in text mode it has
\* the payload written, as it is, also when that parses as JSON.
C15_SentDisplay ==
  SendSucceeded
    => Last(log) = [type |-> SENT,
                    text |-> IF op.flag THEN prettyOrRaw(calls[1].data)
                                        ELSE calls[1].data]

\* { "a":1} was sent in text mode: it is logged as typed, while the same
\* payload received is logged pretty-printed.
C15_Witness ==
  /\ SendSucceeded
  /\ ~op.flag
  /\ calls[1].data = MsgObjectSpaced
  /\ Last(log).text = MsgObjectSpaced
  /\ prettyOrRaw(MsgObjectSpaced) = PrettyObject

\* C16: status starts as Disconnected, with the Connect control offered, and
\* no send (whatever its outcome), clear, message notification or error
\* notification changes it.
C16_StatusFrame ==
  /\ status = "disconnected"
  /\ ConnectOffered
  /\ [][op'.name \in {"sendMessage", "clearLog", "onmessage", "onerror"}
          => status' = status]_vars

\* A send failed on the transport and status is still Connected.
C16_Witness ==
  /\ op.name = "sendMessage"
  /\ Len(calls) = 1
  /\ calls[1].threw
  /\ StartsWith(error, <<"Send failed: ">>)
  /\ status = "connected"

\* The transport wsRef holds has opened and has neither been asked to close
\* nor closed.
CurrentOpen == wsRef # 0 /\ sockets[wsRef].readyState = "OPEN"

\* C17: whenever status is Connected, the current transport reference is set
\* and refers to an open transport, also when connect, disconnect and send
\* are invoked only through the controls the UI offers.
C17_ConnectedMeansOpen == status = "connected" => CurrentOpen

\* C18: whenever the current transport is open, status is Connected; a late
\* close notification of a transport the user disconnected does not
\* override a newer connection.
C18_OpenMeansConnected == CurrentOpen => status = "connected"

\* C19: a Received entry is appended only while status is Connected.
C19_ReceivedOnlyConnected == op.name = "onmessage" => status = "connected"

====
